---- MODULE Spec2Model ----
(***************************************************************************)
(* The wire codec of rust-zookeeper (src/src/proto.rs, src/src/multi.rs).  *)
(*                                                                         *)
(* A byte is a number in 0..255 and a byte stream is a sequence of bytes.  *)
(* A reader (R: Read) is the sequence of bytes it has not yet delivered; a *)
(* decoder returns [status, val, rest]: status is "Ok", "Err" (an          *)
(* io::Error value returned to the caller) or "Panic" (the thread unwinds, *)
(* no value is returned); rest is the unread remainder after an "Ok".      *)
(* An i32 is a TLA+ integer in -2^31 .. 2^31-1.  TLC's integers are 32 bit *)
(* wide, so a u32 and an i64 are kept as their big-endian bytes (4 and 8). *)
(* A Rust String is kept as its UTF-8 bytes, which is how Rust stores it.  *)
(* Option<i32> is <<>> for None and <<v>> for Some(v).                     *)
(***************************************************************************)
EXTENDS Integers, Sequences, FiniteSets, TLC

VARIABLES pc, src, arg, writer, reader, dec, res

vars == <<pc, src, arg, writer, reader, dec, res>>

---------------------------------------------------------------------------
(* Bounds of the model                                                     *)

\* the longest operation list handed to a transaction
MaxOps == 2
\* the largest element count a server puts in front of a sequence
MaxCount == 2

---------------------------------------------------------------------------
(* Byte-level primitives (byteorder::BigEndian over std::io::Read / Write) *)

Prefix(s, k) == SubSeq(s, 1, k)
Drop(s, k) == SubSeq(s, k + 1, Len(s))

RECURSIVE Flatten(_)
Flatten(ss) == IF ss = <<>> THEN <<>> ELSE Head(ss) \o Flatten(Tail(ss))

Ok(v, r) == [status |-> "Ok", val |-> v, rest |-> r]
Err == [status |-> "Err", val |-> <<>>, rest |-> <<>>]
Panic == [status |-> "Panic", val |-> <<>>, rest |-> <<>>]

\* writer.write_i32::<BigEndian>(v): the two's complement of v, most
\* significant byte first
write_i32(v) ==
    << (v \div 16777216) % 256, (v \div 65536) % 256, (v \div 256) % 256, v % 256 >>

write_u8(v) == << v % 256 >>

\* the i32 held by four big-endian bytes
I32Of(b) ==
    (IF b[1] >= 128 THEN b[1] - 256 ELSE b[1]) * 16777216
        + b[2] * 65536 + b[3] * 256 + b[4]

\* reader.read_i32::<BigEndian>(): read_exact of 4 bytes, UnexpectedEof if
\* fewer are left
read_i32(r) == IF Len(r) < 4 THEN Err ELSE Ok(I32Of(Prefix(r, 4)), Drop(r, 4))

\* reader.read_u32::<BigEndian>(): the value is kept as its 4 bytes
read_u32(r) == IF Len(r) < 4 THEN Err ELSE Ok(Prefix(r, 4), Drop(r, 4))

\* reader.read_i64::<BigEndian>(): the value is kept as its 8 bytes
read_i64(r) == IF Len(r) < 8 THEN Err ELSE Ok(Prefix(r, 8), Drop(r, 8))

read_u8(r) == IF Len(r) < 1 THEN Err ELSE Ok(r[1], Drop(r, 1))

\* Read::read(&mut buf) of an in-memory reader (Cursor, &[u8]): copies
\* min(buf.len(), remaining) bytes and returns that count
Read_read(r, n) ==
    LET k == IF n <= Len(r) THEN n ELSE Len(r)
    IN  [n |-> k, bytes |-> Prefix(r, k), rest |-> Drop(r, k)]

\* core::str::from_utf8 validation (RFC 3629: no overlong forms, no
\* surrogates, nothing above U+10FFFF)
IsCont(c) == c \in 128..191

RECURSIVE IsUtf8(_)
IsUtf8(b) ==
    IF b = <<>> THEN TRUE
    ELSE LET c == b[1]
             n == Len(b)
         IN  IF c < 128 THEN IsUtf8(Drop(b, 1))
             ELSE IF c \in 194..223
                  THEN n >= 2 /\ IsCont(b[2]) /\ IsUtf8(Drop(b, 2))
             ELSE IF c \in 224..239
                  THEN /\ n >= 3
                       /\ b[2] \in (IF c = 224 THEN 160..191
                                    ELSE IF c = 237 THEN 128..159 ELSE 128..191)
                       /\ IsCont(b[3])
                       /\ IsUtf8(Drop(b, 3))
             ELSE IF c \in 240..244
                  THEN /\ n >= 4
                       /\ b[2] \in (IF c = 240 THEN 144..191
                                    ELSE IF c = 244 THEN 128..143 ELSE 128..191)
                       /\ IsCont(b[3])
                       /\ IsCont(b[4])
                       /\ IsUtf8(Drop(b, 4))
             ELSE FALSE

\* try!(x) / x? : an error (or an unwinding panic) of x ends the function
\* with it, otherwise the function goes on with x's value
Try(x, F(_)) == IF x.status # "Ok" THEN x ELSE F(x)

\* read_buffer with a negative length rejected instead of clamped to zero
read_buffer_neg_err(r) ==
    Try(read_i32(r), LAMBDA l :
        IF l.val < 0 THEN Err
        ELSE LET got == Read_read(l.rest, l.val)
             IN  IF got.n = l.val THEN Ok(got.bytes, got.rest) ELSE Err)

\* BufferReader::read_buffer
read_buffer(r) ==
    Try(read_i32(r), LAMBDA l :
        LET len == IF l.val < 0 THEN 0 ELSE l.val
            got == Read_read(l.rest, len)
        IN  IF got.n = len THEN Ok(got.bytes, got.rest) ELSE Err)

\* StringReader::read_string: String::from_utf8(raw).unwrap()
read_string(r) ==
    Try(read_buffer(r), LAMBDA raw :
        IF IsUtf8(raw.val) THEN Ok(raw.val, raw.rest) ELSE Panic)

\* the number of chars of a string: its bytes that are not continuations
RECURSIVE CharCount(_)
CharCount(s) ==
    IF s = <<>> THEN 0 ELSE (IF IsCont(s[1]) THEN 0 ELSE 1) + CharCount(Tail(s))

\* String::write_to with self.chars().count() for self.len()
String_write_to_chars(s) == write_i32(CharCount(s)) \o s

\* impl WriteTo for String
String_write_to(s) == write_i32(Len(s)) \o s

\* impl WriteTo for Vec<u8> (WriteTo for u8 on every element)
Vec_u8_write_to(v) ==
    write_i32(Len(v)) \o Flatten([i \in 1..Len(v) |-> write_u8(v[i])])

---------------------------------------------------------------------------
(* Structured records                                                      *)

\* the number of named permissions (READ, WRITE, CREATE, DELETE, ADMIN)
PermBits == 5

RECURSIVE MaskOf(_, _)
MaskOf(p, i) ==
    IF i >= PermBits THEN 0 ELSE (IF i \in p THEN 2 ^ i ELSE 0) + MaskOf(p, i + 1)

\* Permission::from_raw: the set of named permissions whose bit is set in
\* the u32 bitmask (a permission is named by its bit position)
Permission_from_raw(raw) == { i \in 0..(PermBits - 1) : (raw[4] \div (2 ^ i)) % 2 = 1 }

\* Permission::code: the u32 bitmask of a set of named permissions
Permission_code(p) == << 0, 0, 0, MaskOf(p, 0) >>

\* impl ReadFrom for Acl
Acl_read_from(r) ==
    Try(read_u32(r), LAMBDA p :
    Try(read_string(p.rest), LAMBDA s :
    Try(read_string(s.rest), LAMBDA i :
        Ok([perms |-> Permission_from_raw(p.val), scheme |-> s.val, id |-> i.val],
           i.rest))))

\* impl WriteTo for Acl
Acl_write_to(a) ==
    Permission_code(a.perms) \o String_write_to(a.scheme) \o String_write_to(a.id)

\* impl WriteTo for Vec<Acl>
Vec_Acl_write_to(v) ==
    write_i32(Len(v)) \o Flatten([i \in 1..Len(v) |-> Acl_write_to(v[i])])

\* the fields of Stat in declaration order, with their widths
StatFields ==
    << <<"czxid", 8>>, <<"mzxid", 8>>, <<"ctime", 8>>, <<"mtime", 8>>,
       <<"version", 4>>, <<"cversion", 4>>, <<"aversion", 4>>,
       <<"ephemeral_owner", 8>>, <<"data_length", 4>>, <<"num_children", 4>>,
       <<"pzxid", 8>> >>

StatNames == { StatFields[i][1] : i \in 1..Len(StatFields) }

\* the reads of Stat::read_from, one after the other, each with try!
RECURSIVE ReadStatFields(_, _, _)
ReadStatFields(r, i, acc) ==
    IF i > Len(StatFields) THEN Ok(acc, r)
    ELSE Try(IF StatFields[i][2] = 8 THEN read_i64(r) ELSE read_i32(r), LAMBDA f :
             ReadStatFields(f.rest, i + 1, Append(acc, f.val)))

\* impl ReadFrom for Stat
Stat_read_from(r) ==
    Try(ReadStatFields(r, 1, <<>>), LAMBDA fs :
        Ok([n \in StatNames |->
               fs.val[CHOOSE i \in 1..Len(StatFields) : StatFields[i][1] = n]],
           fs.rest))

---------------------------------------------------------------------------
(* Response decoders                                                       *)

\* impl ReadFrom for ConnectResponse
ConnectResponse_read_from(r) ==
    Try(read_i32(r), LAMBDA v :
    Try(read_i32(v.rest), LAMBDA t :
    Try(read_i64(t.rest), LAMBDA s :
    Try(read_buffer(s.rest), LAMBDA p :
    Try(read_u8(p.rest), LAMBDA o :
        Ok([protocol_version |-> v.val, timeout |-> t.val, session_id |-> s.val,
            passwd |-> p.val, read_only |-> (o.val # 0)],
           o.rest))))))

\* impl ReadFrom for CreateResponse
CreateResponse_read_from(r) ==
    Try(read_string(r), LAMBDA p : Ok([path |-> p.val], p.rest))

\* Vec::with_capacity(len as usize): a negative i32 casts to a usize above
\* isize::MAX and the allocation panics with "capacity overflow"
CapacityOverflow(n) == n < 0

\* for _ in 0..len { acl.push(try!(Acl::read_from(reader))) }
RECURSIVE ReadAcls(_, _, _)
ReadAcls(r, n, acc) ==
    IF n <= 0 THEN Ok(acc, r)
    ELSE Try(Acl_read_from(r), LAMBDA a : ReadAcls(a.rest, n - 1, Append(acc, a.val)))

\* impl ReadFrom for GetAclResponse
GetAclResponse_read_from(r) ==
    Try(read_i32(r), LAMBDA len :
        IF CapacityOverflow(len.val) THEN Panic
        ELSE Try(ReadAcls(len.rest, len.val, <<>>), LAMBDA acl :
             Try(Stat_read_from(acl.rest), LAMBDA stat :
                 Ok([acl |-> acl.val, stat |-> stat.val], stat.rest))))

\* for _ in 0..len { children.push(try!(reader.read_string())) }
RECURSIVE ReadStrings(_, _, _)
ReadStrings(r, n, acc) ==
    IF n <= 0 THEN Ok(acc, r)
    ELSE Try(read_string(r), LAMBDA s : ReadStrings(s.rest, n - 1, Append(acc, s.val)))

\* impl ReadFrom for GetChildrenResponse
GetChildrenResponse_read_from(r) ==
    Try(read_i32(r), LAMBDA len :
        IF CapacityOverflow(len.val) THEN Panic
        ELSE Try(ReadStrings(len.rest, len.val, <<>>), LAMBDA c :
                 Ok([children |-> c.val], c.rest)))

\* impl ReadFrom for GetDataResponse
GetDataResponse_read_from(r) ==
    Try(read_buffer(r), LAMBDA data :
    Try(Stat_read_from(data.rest), LAMBDA stat :
        Ok([data |-> data.val, stat |-> stat.val], stat.rest)))

\* impl ReadFrom for WatchedEvent (the raw codes stand for the enum values
\* WatchedEventType::from and KeeperState::from give them)
WatchedEvent_read_from(r) ==
    Try(read_i32(r), LAMBDA t :
    Try(read_i32(t.rest), LAMBDA s :
    Try(read_string(s.rest), LAMBDA p :
        Ok([event_type |-> t.val, keeper_state |-> s.val, path |-> <<p.val>>],
           p.rest))))

\* the loop left commented out in TransactionResponse::read_from: every
\* header's type code is taken for a completion code, -1 included, and the
\* loop ends on the done flag alone
RECURSIVE TransactionLoop(_, _)
TransactionLoop(r, results) ==
    Try(read_i32(r), LAMBDA t :
    Try(read_u8(t.rest), LAMBDA d :
    Try(read_i32(d.rest), LAMBDA e :
    Try(CASE t.val = -1 ->
                Try(read_i32(e.rest), LAMBDA c :
                    Ok([kind |-> "Err", code |-> c.val], c.rest))
          [] t.val = 0 -> Ok([kind |-> "Empty"], e.rest)
          [] t.val = 1 ->
                Try(Stat_read_from(e.rest), LAMBDA st :
                    Ok([kind |-> "SetData", stat |-> st.val], st.rest))
          [] t.val = 6 ->
                Try(read_string(e.rest), LAMBDA p :
                    Ok([kind |-> "Create", path |-> p.val], p.rest))
          [] OTHER -> Err,
        LAMBDA entry :
            IF d.val # 0 THEN Ok([responses |-> Append(results, entry.val)], entry.rest)
            ELSE TransactionLoop(entry.rest, Append(results, entry.val))))))

TransactionResponse_read_from_loop(r) == TransactionLoop(r, <<>>)

\* impl ReadFrom for TransactionResponse: the body the build compiles is
\* Ok(TransactionResponse {responses: vec![]}); the loop is commented out
\* and the reader is never touched
TransactionResponse_read_from(r) == Ok([responses |-> <<>>], r)

---------------------------------------------------------------------------
(* Request encoders                                                        *)

\* enum OpCode
OpCode_Auth == 100
OpCode_Create == 1
OpCode_Delete == 2
OpCode_Exists == 3
OpCode_GetAcl == 6
OpCode_SetAcl == 7
OpCode_GetChildren == 8
OpCode_GetData == 4
OpCode_SetData == 5
OpCode_Ping == 11
OpCode_Check == 13
OpCode_Transaction == 14
OpCode_CloseSession == -11

\* bool as u8
BoolByte(b) == IF b THEN 1 ELSE 0

\* unwrap_or_default() for unwrap_or(-1): None becomes 0
unwrap_or_default(o, d) == IF o = <<>> THEN 0 ELSE o[1]

\* Option<i32>::unwrap_or(d)
unwrap_or(o, d) == IF o = <<>> THEN d ELSE o[1]

\* impl WriteTo for RequestHeader
RequestHeader_write_to(rh) == write_i32(rh.xid) \o write_i32(rh.opcode)

\* impl WriteTo for ConnectRequest
ConnectRequest_write_to(q) ==
    write_i32(q.protocol_version) \o q.last_zxid_seen \o write_i32(q.timeout)
        \o q.session_id \o Vec_u8_write_to(q.passwd) \o write_u8(BoolByte(q.read_only))

\* impl WriteTo for CreateRequest
CreateRequest_write_to(q) ==
    String_write_to(q.path) \o Vec_u8_write_to(q.data) \o Vec_Acl_write_to(q.acl)
        \o write_i32(q.flags)

\* impl WriteTo for DeleteRequest
DeleteRequest_write_to(q) == String_write_to(q.path) \o write_i32(q.version)

\* impl WriteTo for StringAndBoolRequest (Exists, GetChildren, GetData)
StringAndBoolRequest_write_to(q) ==
    String_write_to(q.path) \o write_u8(BoolByte(q.watch))

\* impl WriteTo for GetAclRequest
GetAclRequest_write_to(q) == String_write_to(q.path)

\* impl WriteTo for SetAclRequest
SetAclRequest_write_to(q) ==
    String_write_to(q.path) \o Vec_Acl_write_to(q.acl) \o write_i32(q.version)

\* impl WriteTo for SetDataRequest
SetDataRequest_write_to(q) ==
    String_write_to(q.path) \o Vec_u8_write_to(q.data) \o write_i32(q.version)

\* impl WriteTo for AuthRequest
AuthRequest_write_to(q) ==
    write_i32(q.typ) \o String_write_to(q.scheme) \o Vec_u8_write_to(q.auth)

\* impl WriteTo for EmptyRequest
EmptyRequest_write_to == <<>>

\* TransactionRequest::write_to, first match: the entry's type code
OpTypeCode(op) ==
    CASE op.kind = "Check" -> OpCode_Check
      [] op.kind = "Create" -> OpCode_Create
      [] op.kind = "Delete" -> OpCode_Delete
      [] op.kind = "SetData" -> OpCode_SetData

\* TransactionRequest::write_to, second match: the entry's payload
OpPayload(op) ==
    CASE op.kind = "Check" ->
            String_write_to(op.path) \o write_i32(unwrap_or(op.version, -1))
      [] op.kind = "Create" ->
            String_write_to(op.path) \o Vec_u8_write_to(op.data)
                \o Vec_Acl_write_to(op.acl) \o write_i32(op.mode)
      [] op.kind = "Delete" ->
            String_write_to(op.path) \o write_i32(unwrap_or(op.version, -1))
      [] op.kind = "SetData" ->
            String_write_to(op.path) \o Vec_u8_write_to(op.data)
                \o write_i32(unwrap_or(op.version, -1))

\* TransactionRequest::write_to, the body of the loop: header, then payload
OpEntry(op) ==
    write_i32(OpTypeCode(op)) \o write_u8(0) \o write_i32(-1) \o OpPayload(op)

\* TransactionRequest::write_to, after the loop: the closing entry
TransactionEnd == write_i32(-1) \o write_u8(1) \o write_i32(-1)

\* write_to with the closing entry left out for an empty operation list
TransactionRequest_write_to_skip_end(ops) ==
    IF ops = <<>> THEN <<>>
    ELSE Flatten([i \in 1..Len(ops) |-> OpEntry(ops[i])]) \o TransactionEnd

\* impl WriteTo for TransactionRequest
TransactionRequest_write_to(ops) ==
    Flatten([i \in 1..Len(ops) |-> OpEntry(ops[i])]) \o TransactionEnd

\* the write_to of a request value, by its type (the Request: WriteTo
\* parameter of to_len_prefixed_buf)
Request_write_to(q) ==
    CASE q.type = "EmptyRequest" -> EmptyRequest_write_to
      [] q.type = "ConnectRequest" -> ConnectRequest_write_to(q)
      [] q.type = "CreateRequest" -> CreateRequest_write_to(q)
      [] q.type = "DeleteRequest" -> DeleteRequest_write_to(q)
      [] q.type = "StringAndBoolRequest" -> StringAndBoolRequest_write_to(q)
      [] q.type = "GetAclRequest" -> GetAclRequest_write_to(q)
      [] q.type = "SetAclRequest" -> SetAclRequest_write_to(q)
      [] q.type = "SetDataRequest" -> SetDataRequest_write_to(q)
      [] q.type = "AuthRequest" -> AuthRequest_write_to(q)
      [] q.type = "TransactionRequest" -> TransactionRequest_write_to(q.ops)

---------------------------------------------------------------------------
(* Frame assembly over Cursor<Vec<u8>>                                     *)

\* Cursor::new(Vec::new())
Cursor_new == [inner |-> <<>>, pos |-> 0]

\* Cursor::set_position
Cursor_set_position(c, p) == [c EXCEPT !.pos = p]

\* Write::write_all on Cursor<Vec<u8>>: nothing is written for an empty
\* slice; otherwise the vector is zero-padded up to the position, the bytes
\* overwrite what lies at the position and extend the vector past its end,
\* and the position advances by their count
Cursor_write_all(c, bytes) ==
    IF bytes = <<>> THEN c
    ELSE LET n == Len(bytes)
             padded == c.inner \o [i \in 1..(c.pos - Len(c.inner)) |-> 0]
             newlen == IF c.pos + n > Len(padded) THEN c.pos + n ELSE Len(padded)
         IN  [inner |-> [i \in 1..newlen |->
                            IF i > c.pos /\ i <= c.pos + n THEN bytes[i - c.pos]
                            ELSE padded[i]],
              pos |-> c.pos + n]

\* the tail shared by both to_len_prefixed_buf: measure, back-fill, rewind
BackFill(b) ==
    LET len == b.pos - 4
        p == Cursor_write_all(Cursor_set_position(b, 0), write_i32(len))
    IN  Cursor_set_position(p, 0)

\* to_len_prefixed_buf without buf.set_position(4): nothing is reserved
\* for the prefix, which then lands on the header
to_len_prefixed_buf_no_reserve(rh, req) ==
    LET b1 == Cursor_write_all(Cursor_new, RequestHeader_write_to(rh))
        b2 == Cursor_write_all(b1, Request_write_to(req))
    IN  BackFill(b2)

\* pub fn to_len_prefixed_buf(rh, req)
to_len_prefixed_buf(rh, req) ==
    LET b0 == Cursor_set_position(Cursor_new, 4)
        b1 == Cursor_write_all(b0, RequestHeader_write_to(rh))
        b2 == Cursor_write_all(b1, Request_write_to(req))
    IN  BackFill(b2)

\* WriteTo::to_len_prefixed_buf(&self), the provided method
WriteTo_to_len_prefixed_buf(req) ==
    LET b0 == Cursor_set_position(Cursor_new, 4)
        b1 == Cursor_write_all(b0, Request_write_to(req))
    IN  BackFill(b1)

---------------------------------------------------------------------------
(* The values the callers hand to the encoders                             *)

None == <<>>
Some(v) == <<v>>

\* "/", "/t", "" and "e-acute" (two bytes of UTF-8)
PathRoot == <<47>>
PathT == <<47, 116>>
StrVals == { <<>>, PathRoot, PathT, <<195, 169>> }

BufVals == { <<>>, <<8, 8>>, <<255>> }

\* Acl::open_unsafe()[0] (all permissions, "world", "anyone") and a
\* read-only entry with empty scheme and id
AclOpen ==
    [perms |-> 0..(PermBits - 1), scheme |-> <<119, 111, 114, 108, 100>>,
     id |-> <<97, 110, 121, 111, 110, 101>>]
AclRead == [perms |-> {0}, scheme |-> <<>>, id |-> <<>>]
AclVals == { AclOpen, AclRead, [perms |-> {1, 4}, scheme |-> <<195, 169>>, id |-> PathT] }

\* the operations of a transaction; mode is CreateMode as i32 (1 is
\* Ephemeral, 2 is PersistentSequential)
OpVals ==
    { [kind |-> "Check", path |-> PathRoot, version |-> v] : v \in {None, Some(3)} }
    \cup { [kind |-> "Delete", path |-> PathT, version |-> v] : v \in {None, Some(0)} }
    \cup { [kind |-> "SetData", path |-> PathT, data |-> <<8, 8>>, version |-> v] :
             v \in {None, Some(-2)} }
    \cup { [kind |-> "Create", path |-> PathT, data |-> <<>>, acl |-> <<AclOpen>>,
            mode |-> 1],
           [kind |-> "Create", path |-> PathRoot, data |-> <<8, 8>>, acl |-> <<>>,
            mode |-> 2] }

RECURSIVE SeqsUpTo(_, _)
SeqsUpTo(S, n) ==
    IF n = 0 THEN { <<>> }
    ELSE LET shorter == SeqsUpTo(S, n - 1)
         IN  shorter \cup { Append(s, x) : s \in { t \in shorter : Len(t) = n - 1 }, x \in S }

OpLists == SeqsUpTo(OpVals, MaxOps)

XidVals == { -2, 1, 258 }

Zero8 == << 0, 0, 0, 0, 0, 0, 0, 0 >>
Session8 == << 1, 2, 3, 4, 5, 6, 7, 200 >>

\* the request values framed behind a RequestHeader, each with the opcodes
\* the session layer sends it under
HeadedRequests ==
    { <<o, [type |-> "EmptyRequest"]>> : o \in {OpCode_Ping, OpCode_CloseSession} }
    \cup { <<o, [type |-> "StringAndBoolRequest", path |-> PathT, watch |-> w]>> :
             o \in {OpCode_Exists, OpCode_GetChildren, OpCode_GetData}, w \in BOOLEAN }
    \cup { <<OpCode_Create,
             [type |-> "CreateRequest", path |-> p, data |-> <<8, 8>>,
              acl |-> <<AclOpen>>, flags |-> 1]>> : p \in {<<>>, PathT} }
    \cup { <<OpCode_Delete, [type |-> "DeleteRequest", path |-> PathT, version |-> v]>> :
             v \in {-1, 4} }
    \cup { <<OpCode_GetAcl, [type |-> "GetAclRequest", path |-> p]>> : p \in StrVals }
    \cup { <<OpCode_SetAcl,
             [type |-> "SetAclRequest", path |-> PathT, acl |-> a, version |-> -1]>> :
             a \in { <<>>, <<AclRead, AclOpen>> } }
    \cup { <<OpCode_SetData,
             [type |-> "SetDataRequest", path |-> PathT, data |-> d, version |-> 7]>> :
             d \in BufVals }
    \cup { <<OpCode_Auth,
             [type |-> "AuthRequest", typ |-> 0, scheme |-> <<100>>, auth |-> d]>> :
             d \in BufVals }
    \cup { <<OpCode_Transaction, [type |-> "TransactionRequest", ops |-> ops]>> :
             ops \in OpLists }

\* the requests framed with the provided method, without a RequestHeader
BareRequests ==
    { [type |-> "EmptyRequest"] }
    \cup { [type |-> "ConnectRequest", protocol_version |-> 0, last_zxid_seen |-> z,
            timeout |-> 5000, session_id |-> Zero8, passwd |-> p, read_only |-> ro] :
             z \in {Zero8, Session8}, p \in BufVals, ro \in BOOLEAN }

---------------------------------------------------------------------------
(* The byte streams a server sends: each is the layout of one reply shape  *)
(* filled with values, of which the reader is given the first cut bytes    *)

\* strings as a server may put them on the wire: valid UTF-8, a lone 0xFF
\* and a lead byte without its continuation
WireStrs == { <<>>, PathT, <<195, 169>>, <<255>>, <<195>> }

WireBuffer(decl, bytes) == write_i32(decl) \o bytes

WireAcl(a) == a.raw \o WireBuffer(Len(a.scheme), a.scheme) \o WireBuffer(Len(a.id), a.id)

WireAcls ==
    { [raw |-> <<0, 0, 0, 31>>, scheme |-> <<119>>, id |-> <<97>>],
      [raw |-> <<0, 0, 0, 1>>, scheme |-> <<255>>, id |-> <<>>],
      [raw |-> <<128, 0, 0, 5>>, scheme |-> <<>>, id |-> <<195>>] }

\* the entries a server lists in a GetAcl reply
ListAcls == { a \in WireAcls : a.scheme # <<>> }

StatVals ==
    { [n \in StatNames |-> IF n \in {"version", "cversion", "aversion", "data_length",
                                     "num_children"} THEN 0 ELSE Zero8],
      [czxid |-> Session8, mzxid |-> Zero8, ctime |-> Session8, mtime |-> Session8,
       version |-> 3, cversion |-> -1, aversion |-> 65536, ephemeral_owner |-> Zero8,
       data_length |-> 2, num_children |-> 0, pzxid |-> Session8] }

WireStat(st) ==
    Flatten([i \in 1..Len(StatFields) |->
                IF StatFields[i][2] = 8 THEN st[StatFields[i][1]]
                ELSE write_i32(st[StatFields[i][1]])])

TheStat == CHOOSE st \in StatVals : st.version = 3

\* the server's values, by the decoder their shape belongs to
ServerVals ==
    { [kind |-> "read_buffer", decl |-> Len(b), bytes |-> b] : b \in BufVals }
    \cup { [kind |-> "read_buffer", decl |-> d, bytes |-> b] :
             d \in {-1, -2147483647}, b \in { <<>>, <<0, 0, 0, 1, 9>> } }
    \cup { [kind |-> "read_string", str |-> s] : s \in WireStrs }
    \cup { [kind |-> "Acl", acl |-> a] : a \in WireAcls }
    \cup { [kind |-> "Stat", stat |-> st] : st \in StatVals }
    \cup { [kind |-> "ConnectResponse", passwd |-> p, read_only |-> o] :
             p \in { <<>>, <<1, 2, 3>> }, o \in {0, 1} }
    \cup { [kind |-> "CreateResponse", str |-> s] : s \in WireStrs }
    \cup { [kind |-> "GetData", bytes |-> b] : b \in BufVals }
    \cup { [kind |-> "GetChildren", count |-> Len(c), children |-> c] :
             c \in SeqsUpTo({PathT, <<255>>}, MaxCount) }
    \cup { [kind |-> "GetChildren", count |-> -1, children |-> <<>>] }
    \cup { [kind |-> "GetAcl", count |-> Len(c), acls |-> c] :
             c \in SeqsUpTo(ListAcls, MaxCount) }
    \cup { [kind |-> "GetAcl", count |-> -1, acls |-> <<>>] }
    \cup { [kind |-> "WatchedEvent", type |-> 1, state |-> 3, str |-> s] :
             s \in WireStrs }

WireOf(v) ==
    CASE v.kind = "read_buffer" -> WireBuffer(v.decl, v.bytes)
      [] v.kind \in {"read_string", "CreateResponse"} -> WireBuffer(Len(v.str), v.str)
      [] v.kind = "Acl" -> WireAcl(v.acl)
      [] v.kind = "Stat" -> WireStat(v.stat)
      [] v.kind = "ConnectResponse" ->
            write_i32(0) \o write_i32(5000) \o Session8
                \o WireBuffer(Len(v.passwd), v.passwd) \o <<v.read_only>>
      [] v.kind = "GetData" -> WireBuffer(Len(v.bytes), v.bytes) \o WireStat(TheStat)
      [] v.kind = "GetChildren" ->
            write_i32(v.count)
                \o Flatten([i \in 1..Len(v.children) |->
                               WireBuffer(Len(v.children[i]), v.children[i])])
      [] v.kind = "GetAcl" ->
            write_i32(v.count) \o Flatten([i \in 1..Len(v.acls) |-> WireAcl(v.acls[i])])
                \o WireStat(TheStat)
      [] v.kind = "WatchedEvent" ->
            write_i32(v.type) \o write_i32(v.state) \o WireBuffer(Len(v.str), v.str)

\* enum Completion
Completion_Error == -1
Completion_Empty == 0
Completion_Stat == 1
Completion_String == 6

\* the completion code a server answers an operation with
CompletionOf(op) ==
    CASE op.kind \in {"Check", "Delete"} -> Completion_Empty
      [] op.kind = "SetData" -> Completion_Stat
      [] op.kind = "Create" -> Completion_String

\* service error codes of a failed operation (NoNode, BadVersion) and the
\* err field of one that did not fail
ErrCodes == { -101, -103 }
NoErr == -1

TxnHeader(type_code, done, err) == write_i32(type_code) \o write_u8(done) \o write_i32(err)

\* one entry of a transaction reply: the header, and the payload of an
\* operation that did not fail
ReplyEntry(op, err) ==
    TxnHeader(CompletionOf(op), 0, err)
        \o (IF err # NoErr THEN <<>>
            ELSE CASE op.kind \in {"Check", "Delete"} -> <<>>
                   [] op.kind = "SetData" -> WireStat(TheStat)
                   [] op.kind = "Create" -> WireBuffer(Len(op.path), op.path))

\* the reply stream matching ops, operation i answered with errs[i]
ReplyStream(ops, errs) ==
    Flatten([i \in 1..Len(ops) |-> ReplyEntry(ops[i], errs[i])])
        \o TxnHeader(Completion_Error, 1, NoErr)

\* the outcome list the reply stream stands for
Outcome(op, err) ==
    IF err # NoErr THEN [kind |-> "Err", code |-> err]
    ELSE CASE op.kind \in {"Check", "Delete"} -> [kind |-> "Empty"]
           [] op.kind = "SetData" -> [kind |-> "SetData", stat |-> TheStat]
           [] op.kind = "Create" -> [kind |-> "Create", path |-> op.path]

---------------------------------------------------------------------------
(* The codec in use: a caller encodes a value or a server's bytes arrive   *)
(* (pc "idle" to "ready"), and one decoder is run on the bytes at hand     *)
(* (pc "ready" to "done").                                                 *)
(*   src     the operation that produced the bytes                         *)
(*   arg     the value it was given                                        *)
(*   writer  the Cursor<Vec<u8>> the encoder wrote into                    *)
(*   reader  the bytes in front of the decoder                             *)
(*   dec     the decoder that ran, res what it returned                    *)

NoRes == [status |-> "None", val |-> <<>>, rest |-> <<>>]

Init ==
    /\ pc = "idle"
    /\ src = "none"
    /\ arg = <<>>
    /\ writer = Cursor_new
    /\ reader = <<>>
    /\ dec = "none"
    /\ res = NoRes

\* an encoder ran on value v and left cursor c
Encoded(name, v, c) ==
    /\ pc' = "ready"
    /\ src' = name
    /\ arg' = v
    /\ writer' = c
    /\ reader' = c.inner
    /\ UNCHANGED <<dec, res>>

WriteString ==
    /\ pc = "idle"
    /\ \E s \in StrVals :
        Encoded("String_write_to", s, Cursor_write_all(Cursor_new, String_write_to(s)))

WriteBuffer ==
    /\ pc = "idle"
    /\ \E b \in BufVals :
        Encoded("Vec_u8_write_to", b, Cursor_write_all(Cursor_new, Vec_u8_write_to(b)))

WriteAcl ==
    /\ pc = "idle"
    /\ \E a \in AclVals :
        Encoded("Acl_write_to", a, Cursor_write_all(Cursor_new, Acl_write_to(a)))

WriteTransaction ==
    /\ pc = "idle"
    /\ \E ops \in OpLists :
        Encoded("TransactionRequest_write_to", ops,
                Cursor_write_all(Cursor_new, TransactionRequest_write_to(ops)))

Frame ==
    /\ pc = "idle"
    /\ \E xid \in XidVals, h \in HeadedRequests :
        LET rh == [xid |-> xid, opcode |-> h[1]]
        IN  Encoded("to_len_prefixed_buf", [rh |-> rh, req |-> h[2]],
                    to_len_prefixed_buf(rh, h[2]))

FrameBare ==
    /\ pc = "idle"
    /\ \E q \in BareRequests :
        Encoded("WriteTo_to_len_prefixed_buf", q, WriteTo_to_len_prefixed_buf(q))

\* the transport hands over the first cut bytes of a server's stream
Receive ==
    /\ pc = "idle"
    /\ \E v \in ServerVals :
        \E cut \in 0..Len(WireOf(v)) :
            /\ pc' = "ready"
            /\ src' = "server"
            /\ arg' = [v |-> v, cut |-> cut, full |-> Len(WireOf(v))]
            /\ writer' = Cursor_new
            /\ reader' = Prefix(WireOf(v), cut)
            /\ UNCHANGED <<dec, res>>

\* the server answers the transaction just encoded, each operation with
\* success or a service error
ServerReply ==
    /\ pc = "ready"
    /\ src = "TransactionRequest_write_to"
    /\ \E errs \in [1..Len(arg) -> {NoErr} \cup ErrCodes] :
        /\ src' = "reply"
        /\ arg' = [ops |-> arg, errs |-> errs]
        /\ reader' = ReplyStream(arg, errs)
    /\ UNCHANGED <<pc, writer, dec, res>>

\* a decoder ran on the bytes at hand
Decoded(name, r) ==
    /\ pc = "ready"
    /\ pc' = "done"
    /\ dec' = name
    /\ res' = r
    /\ UNCHANGED <<src, arg, writer, reader>>

ReadBuffer == Decoded("read_buffer", read_buffer(reader))
ReadString == Decoded("read_string", read_string(reader))
ReadAcl == Decoded("Acl", Acl_read_from(reader))
ReadStat == Decoded("Stat", Stat_read_from(reader))
ReadConnectResponse == Decoded("ConnectResponse", ConnectResponse_read_from(reader))
ReadCreateResponse == Decoded("CreateResponse", CreateResponse_read_from(reader))
ReadGetAclResponse == Decoded("GetAcl", GetAclResponse_read_from(reader))
ReadGetChildrenResponse == Decoded("GetChildren", GetChildrenResponse_read_from(reader))
ReadGetDataResponse == Decoded("GetData", GetDataResponse_read_from(reader))
ReadWatchedEvent == Decoded("WatchedEvent", WatchedEvent_read_from(reader))
ReadTransactionResponse ==
    Decoded("TransactionResponse", TransactionResponse_read_from(reader))

Next ==
    \/ WriteString
    \/ WriteBuffer
    \/ WriteAcl
    \/ WriteTransaction
    \/ Frame
    \/ FrameBare
    \/ Receive
    \/ ServerReply
    \/ ReadBuffer
    \/ ReadString
    \/ ReadAcl
    \/ ReadStat
    \/ ReadConnectResponse
    \/ ReadCreateResponse
    \/ ReadGetAclResponse
    \/ ReadGetChildrenResponse
    \/ ReadGetDataResponse
    \/ ReadWatchedEvent
    \/ ReadTransactionResponse

Spec == Init /\ [][Next]_vars

---------------------------------------------------------------------------
(* Transactions                                                            *)

\* A transaction request stream as its receiver reads it: entries of
\* header and payload, the payload's shape chosen by the header's type
\* code, up to and including the first header with done # 0.
ParsePayload(t, r) ==
    CASE t = 13 \/ t = 2 ->
            Try(read_string(r), LAMBDA p :
            Try(read_i32(p.rest), LAMBDA v :
                Ok([path |-> p.val, version |-> v.val], v.rest)))
      [] t = 1 ->
            Try(read_string(r), LAMBDA p :
            Try(read_buffer(p.rest), LAMBDA d :
            Try(read_i32(d.rest), LAMBDA n :
            Try(ReadAcls(n.rest, n.val, <<>>), LAMBDA a :
            Try(read_i32(a.rest), LAMBDA m :
                Ok([path |-> p.val, data |-> d.val, count |-> n.val, acl |-> a.val,
                    mode |-> m.val], m.rest))))))
      [] t = 5 ->
            Try(read_string(r), LAMBDA p :
            Try(read_buffer(p.rest), LAMBDA d :
            Try(read_i32(d.rest), LAMBDA v :
                Ok([path |-> p.val, data |-> d.val, version |-> v.val], v.rest))))
      [] OTHER -> Err

ParseHeader(r) ==
    Try(read_i32(r), LAMBDA t :
    Try(read_u8(t.rest), LAMBDA d :
    Try(read_i32(d.rest), LAMBDA e :
        Ok([type_code |-> t.val, done |-> d.val, err |-> e.val], e.rest))))

RECURSIVE ParseEntries(_, _)
ParseEntries(r, acc) ==
    Try(ParseHeader(r), LAMBDA h :
        IF h.val.done # 0 THEN Ok([entries |-> acc, last |-> h.val], h.rest)
        ELSE Try(ParsePayload(h.val.type_code, h.rest), LAMBDA b :
                 ParseEntries(b.rest, Append(acc, [header |-> h.val, body |-> b.val]))))

Parsed == ParseEntries(writer.inner, <<>>)

TxnWritten == src = "TransactionRequest_write_to" /\ pc \in {"ready", "done"}

\* the type code the wire format gives each operation variant
WireCode(kind) ==
    CASE kind = "Check" -> 13 [] kind = "Create" -> 1
      [] kind = "Delete" -> 2 [] kind = "SetData" -> 5

\* the fields of a parsed payload other than the version, against the
\* operation it was written for
BodyMatches(b, op) ==
    /\ b.path = op.path
    /\ op.kind \in {"Create", "SetData"} => b.data = op.data
    /\ op.kind = "Create" =>
          /\ b.count = Len(op.acl)
          /\ b.acl = op.acl
          /\ b.mode = op.mode

\* C4: TransactionRequest::write_to emits, in list order, one entry per
\* operation, each the header {type code of the variant, done = 0, err = -1}
\* followed by the operation's payload, and then exactly one closing header
\* {-1, 1, -1} without payload as the last 9 bytes, for N = 0 too.
C4_EncodeLayout ==
    TxnWritten =>
        LET w == writer.inner
        IN  /\ Len(w) >= 9
            /\ Drop(w, Len(w) - 9) = <<255, 255, 255, 255, 1, 255, 255, 255, 255>>
            /\ Parsed.status = "Ok"
            /\ Parsed.rest = <<>>
            /\ Parsed.val.last = [type_code |-> -1, done |-> 1, err |-> -1]
            /\ Len(Parsed.val.entries) = Len(arg)
            /\ \A i \in 1..Len(arg) :
                  /\ Parsed.val.entries[i].header =
                        [type_code |-> WireCode(arg[i].kind), done |-> 0, err |-> -1]
                  /\ BodyMatches(Parsed.val.entries[i].body, arg[i])

C4_Witness ==
    /\ TxnWritten
    /\ Len(arg) = 2
    /\ arg[1].kind = "Create"
    /\ arg[2].kind = "SetData"
    /\ Len(Parsed.val.entries) = 2

C4_WitnessEmpty == TxnWritten /\ arg = <<>> /\ Len(writer.inner) = 9

\* C5: every Check, Delete and SetData entry carries the version field -1
\* when the operation's version is None and v when it is Some(v).
C5_VersionSentinel ==
    TxnWritten =>
        /\ Parsed.status = "Ok"
        /\ Len(Parsed.val.entries) = Len(arg)
        /\ \A i \in 1..Len(arg) :
              arg[i].kind \in {"Check", "Delete", "SetData"} =>
                  Parsed.val.entries[i].body.version =
                      (IF arg[i].version = None THEN -1 ELSE arg[i].version[1])

\* the two-operation transaction of the test: Create, then Check{"/", None}
C5_Witness ==
    /\ TxnWritten
    /\ Len(arg) = 2
    /\ arg[1].kind = "Create"
    /\ arg[2] = [kind |-> "Check", path |-> PathRoot, version |-> None]
    /\ Parsed.status = "Ok"
    /\ Parsed.val.entries[2].body.version = -1

TxnDecoded == pc = "done" /\ src = "reply" /\ dec = "TransactionResponse"

AllSucceeded == \A i \in 1..Len(arg.errs) : arg.errs[i] = NoErr

\* the decoded list is the outcome list the reply stream stands for
DecodedAsSent ==
    /\ res.status = "Ok"
    /\ Len(res.val.responses) = Len(arg.ops)
    /\ \A i \in 1..Len(arg.ops) :
          res.val.responses[i] = Outcome(arg.ops[i], arg.errs[i])

\* C1: decoding the reply stream that answers N operations, none failed,
\* yields exactly N outcomes in order: Empty for Check and Delete,
\* Create{path} for Create, SetData{stat} for SetData.
C1_TransactionRoundTrip == (TxnDecoded /\ AllSucceeded) => DecodedAsSent

\* C2: when entry k of the reply stream has err # -1, the decoded list
\* carries the error outcome with that code at position k and every other
\* entry is decoded into its own outcome at its own position.
C2_MidListError == (TxnDecoded /\ ~AllSucceeded) => DecodedAsSent

\* C3: a reply stream of only the closing entry decodes to success with an
\* empty outcome list.
C3_TerminalOnly ==
    (/\ pc = "done"
     /\ dec = "TransactionResponse"
     /\ reader = <<255, 255, 255, 255, 1, 255, 255, 255, 255>>)
        => (res.status = "Ok" /\ res.val.responses = <<>>)

C3_Witness ==
    /\ TxnDecoded
    /\ arg.ops = <<>>
    /\ reader = <<255, 255, 255, 255, 1, 255, 255, 255, 255>>
    /\ res.status = "Ok"

---------------------------------------------------------------------------
(* Primitives and records                                                  *)

RoundTripped(enc, d) == pc = "done" /\ src = enc /\ dec = d

\* C6: for the types with both an encoder and a decoder (byte buffer,
\* string, Acl) decoding what the encoder wrote gives back the value, the
\* empty string and the empty buffer included, and leaves no byte unread.
C6_RoundTrip ==
    /\ RoundTripped("String_write_to", "read_string") => res = Ok(arg, <<>>)
    /\ RoundTripped("Vec_u8_write_to", "read_buffer") => res = Ok(arg, <<>>)
    /\ RoundTripped("Acl_write_to", "Acl") => res = Ok(arg, <<>>)

C6_Witness ==
    /\ RoundTripped("Acl_write_to", "Acl")
    /\ arg = AclOpen
    /\ res.status = "Ok"
    /\ res.val.scheme = <<119, 111, 114, 108, 100>>

C6_WitnessEmpty ==
    /\ RoundTripped("String_write_to", "read_string")
    /\ arg = <<>>
    /\ res.status = "Ok"

\* a string position of the server's value holds bytes that are no UTF-8
BadUtf8(v) ==
    CASE v.kind \in {"read_string", "CreateResponse", "WatchedEvent"} -> ~IsUtf8(v.str)
      [] v.kind = "Acl" -> ~IsUtf8(v.acl.scheme) \/ ~IsUtf8(v.acl.id)
      [] v.kind = "GetChildren" ->
            \E i \in 1..Len(v.children) : ~IsUtf8(v.children[i])
      [] v.kind = "GetAcl" ->
            \E i \in 1..Len(v.acls) : ~IsUtf8(v.acls[i].scheme) \/ ~IsUtf8(v.acls[i].id)
      [] OTHER -> FALSE

\* the server's stream was cut short of what the value's own shape takes
\* (the bytes behind a negative-length buffer belong to the next field)
Extent(v) == IF v.kind = "read_buffer" /\ v.decl < 0 THEN 4 ELSE Len(WireOf(v))

Truncated(kinds) ==
    /\ pc = "done"
    /\ src = "server"
    /\ arg.v.kind \in kinds
    /\ dec = arg.v.kind
    /\ arg.cut < Extent(arg.v)

\* C7: a decoder given fewer bytes than a length prefix or a fixed-width
\* field declares returns an error value, for read_buffer, read_string,
\* Stat, Acl and the ConnectResponse, GetData, GetChildren and GetAcl
\* decoders.
C7_TruncatedIsError ==
    Truncated({"read_buffer", "read_string", "Stat", "Acl", "ConnectResponse",
               "GetData", "GetChildren", "GetAcl"})
        => res.status = "Err"

\* what the cut inputs do instead: never a value, and a panic only behind
\* a string that is no UTF-8 or a negative element count
TruncatedNeverValue ==
    Truncated({"read_buffer", "read_string", "Stat", "Acl", "ConnectResponse",
               "GetData", "GetChildren", "GetAcl"})
        => /\ res.status \in {"Err", "Panic"}
           /\ res.status = "Panic" =>
                 \/ BadUtf8(arg.v)
                 \/ (arg.v.kind \in {"GetChildren", "GetAcl"} /\ arg.v.count < 0)

\* C8: a buffer whose declared length is negative (the sign bit of its
\* first byte is set) decodes to success with an empty buffer; only the 4
\* length bytes are consumed and what follows is left for the next field.
C8_NegativeLength ==
    (/\ pc = "done"
     /\ dec = "read_buffer"
     /\ Len(reader) >= 4
     /\ reader[1] >= 128)
        => res = Ok(<<>>, Drop(reader, 4))

C8_Witness ==
    /\ pc = "done"
    /\ dec = "read_buffer"
    /\ reader = <<255, 255, 255, 255, 0, 0, 0, 1, 9>>
    /\ res.status = "Ok"
    /\ res.rest = <<0, 0, 0, 1, 9>>

\* C9: decoding a string whose payload is not valid UTF-8 returns a decode
\* error value, wherever a string is decoded (read_string, Acl scheme and
\* id, CreateResponse path, GetChildren entries, WatchedEvent path).
C9_StrictUtf8 ==
    (/\ pc = "done"
     /\ src = "server"
     /\ dec = arg.v.kind
     /\ arg.cut = arg.full
     /\ BadUtf8(arg.v))
        => res.status = "Err"

---------------------------------------------------------------------------
(* Frames                                                                  *)

\* C10: the frame of to_len_prefixed_buf is the length prefix, the
\* RequestHeader {xid, opcode} and the body; the prefix is the byte count of
\* header and body, header and body are intact, and the cursor is at 0; the
\* length of a frame with an empty body is 8.
C10_FrameAssembly ==
    (src = "to_len_prefixed_buf" /\ pc \in {"ready", "done"}) =>
        LET f == writer.inner
            body == Request_write_to(arg.req)
        IN  /\ writer.pos = 0
            /\ Len(f) = 12 + Len(body)
            /\ read_i32(f).val = Len(f) - 4
            /\ I32Of(SubSeq(f, 5, 8)) = arg.rh.xid
            /\ I32Of(SubSeq(f, 9, 12)) = arg.rh.opcode
            /\ Drop(f, 12) = body
            /\ arg.req.type = "EmptyRequest" => Prefix(f, 4) = <<0, 0, 0, 8>>

\* a Ping frame: xid -2, opcode 11, nothing else
C10_Witness ==
    /\ src = "to_len_prefixed_buf"
    /\ arg.req.type = "EmptyRequest"
    /\ writer = [inner |-> <<0, 0, 0, 8, 255, 255, 255, 254, 0, 0, 0, 11>>, pos |-> 0]

---------------------------------------------------------------------------
(* Sequences                                                               *)

\* a GetChildren or GetAcl reply whose element count is negative, its four
\* count bytes in front of the decoder of its shape
NegativeCountDecoded ==
    /\ pc = "done"
    /\ src = "server"
    /\ arg.v.kind \in {"GetChildren", "GetAcl"}
    /\ dec = arg.v.kind
    /\ arg.v.count < 0
    /\ arg.cut >= 4

\* C11: decoding a sequence (GetChildrenResponse children, GetAclResponse
\* ACL list) whose declared count is negative returns a framing error
\* value; it does not crash and returns no sequence of another length.
C11_NegativeCount == NegativeCountDecoded => res.status = "Err"

\* what the code does there: the allocation panics, and no value of any
\* length is returned
NegativeCountPanics == NegativeCountDecoded => res.status = "Panic"

====
